---- MODULE Spec2Model ----
(***************************************************************************)
(* NQueensSolver of src/level3/n_queens.py as a state machine.             *)
(*                                                                         *)
(* One solver object is alive at a time (main() builds a new one for every *)
(* problem).  The three searches run step by step: the recursive ones on   *)
(* an explicit call stack of frames, the iterative one loop iteration by   *)
(* loop iteration.  The board is kept as the set of cells whose entry is 1.*)
(***************************************************************************)
EXTENDS Integers, Sequences, FiniteSets, TLC

\* ------------------------------------------------------------------ bounds
MaxN == 12          \* largest board size for the first-solution searches
MaxAllN == 8        \* largest board size for the exhaustive search
MaxSeqN == 5        \* largest board size for calls on a used, un-rebuilt solver
MaxCalls == 2       \* top-level search calls per behaviour
MaxNeg == 1         \* sizes down to -MaxNeg are passed to the constructor
MaxValN == 2        \* largest board size for enumerated validator candidates

Sizes == (0 - MaxNeg)..MaxN

VARIABLES
    n,                \* self.n
    board,            \* self.board: the set of <<row, col>> with board[row][col] = 1
    solutions,        \* self.solutions
    solution_count,   \* self.solution_count
    backtrack_count,  \* self.backtrack_count
    pc,               \* "idle": no call active; "run": a search is executing
    mode,             \* the search running or last completed: "none","bt","all","it"
    frames,           \* call stack of the recursive searches (top = last)
    rv,               \* value returned by the call that just returned to the top frame
    cols, diag1, diag2, \* the three sets shared by all solve_all_backtrack frames
    stack, positions, \* locals of solve_iterative
    ret,              \* return value of the last completed top-level call
    calls,            \* number of top-level calls started so far
    fresh,            \* the solver is untouched since its construction
    startedFresh,     \* the running/last call was started on an untouched solver
    afterReset,       \* the running/last call was started right after reset()
    startLen,         \* len(solutions) when the running/last call was started
    undone,           \* history: queens taken off the board since construction/reset
    ref,              \* history: outcome of each search when run on an untouched solver
    vcand, vres       \* argument and result of the last validate_solution call
                      \* since the last search was started

vars == <<n, board, solutions, solution_count, backtrack_count, pc, mode, frames,
          rv, cols, diag1, diag2, stack, positions, ret, calls, fresh,
          startedFresh, afterReset, startLen, undone, ref, vcand, vres>>

solverVars == <<n, board, solutions, solution_count, backtrack_count>>
allSets == <<cols, diag1, diag2>>
iterVars == <<stack, positions>>
valVars == <<vcand, vres>>

Modes == {"bt", "all", "it"}

\* ------------------------------------------------------------- pure helpers

Range0(m) == 0..(m - 1)     \* range(m)

\* is_safe with the column scanned over all rows, not only the rows above
is_safe_WholeColumn(b, m, row, col) ==
    /\ \A i \in Range0(m) : <<i, col>> \notin b
    /\ \A k \in 1..row : (col - k >= 0) => <<row - k, col - k>> \notin b
    /\ \A k \in 1..row : (col + k < m) => <<row - k, col + k>> \notin b

\* is_safe without the scan of the upper right diagonal
is_safe_NoRightDiagonal(b, m, row, col) ==
    /\ \A i \in Range0(row) : <<i, col>> \notin b
    /\ \A k \in 1..row : (col - k >= 0) => <<row - k, col - k>> \notin b

\* is_safe: the board scan of lines 36-54 (column above, both upper diagonals)
is_safe(b, m, row, col) ==
    /\ \A i \in Range0(row) : <<i, col>> \notin b
    /\ \A k \in 1..row : (col - k >= 0) => <<row - k, col - k>> \notin b
    /\ \A k \in 1..row : (col + k < m) => <<row - k, col + k>> \notin b

\* is_safe_optimized without the row + col test, and without the row - col test
is_safe_optimized_NoDiag2(row, col, cs, d1, d2) ==
    /\ col \notin cs
    /\ (row - col) \notin d1

is_safe_optimized_NoDiag1(row, col, cs, d1, d2) ==
    /\ col \notin cs
    /\ (row + col) \notin d2

\* lines 65-67
is_safe_optimized(row, col, cs, d1, d2) ==
    /\ col \notin cs
    /\ (row - col) \notin d1
    /\ (row + col) \notin d2

\* the nested "for r / for c / if board[r][c] == 1: append((r, c))" scan:
\* the inner loop from column c of row r, and the outer loop from row r
RECURSIVE ScanCols(_, _, _, _)
ScanCols(b, m, r, c) ==
    IF c >= m THEN <<>>
    ELSE (IF <<r, c>> \in b THEN << <<r, c>> >> ELSE <<>>) \o ScanCols(b, m, r, c + 1)

RECURSIVE ScanFrom(_, _, _)
ScanFrom(b, m, r) ==
    IF r >= m THEN <<>>
    ELSE ScanCols(b, m, r, 0) \o ScanFrom(b, m, r + 1)

ScanBoard(b, m) == IF m <= 0 THEN <<>> ELSE ScanFrom(b, m, 0)

\* the loop of validate_solution, from index i with the four sets built so far
RECURSIVE ValidateFrom(_, _, _, _, _, _)
ValidateFrom(sol, i, rs, cs, d1, d2) ==
    IF i > Len(sol) THEN TRUE
    ELSE LET row == sol[i][1]
             col == sol[i][2]
         IN IF row \in rs \/ col \in cs \/ (row - col) \in d1 \/ (row + col) \in d2
            THEN FALSE
            ELSE ValidateFrom(sol, i + 1, rs \cup {row}, cs \cup {col},
                              d1 \cup {row - col}, d2 \cup {row + col})

\* validate_solution without the length test of lines 252-253
validate_solution_NoLength(m, sol) == ValidateFrom(sol, 1, {}, {}, {}, {})

\* lines 250-270
validate_solution(m, sol) ==
    IF Len(sol) # m THEN FALSE
    ELSE ValidateFrom(sol, 1, {}, {}, {}, {})

get_known_solution_counts ==
    (1 :> 1) @@ (2 :> 0) @@ (3 :> 0) @@ (4 :> 2) @@ (5 :> 10) @@ (6 :> 4) @@
    (7 :> 40) @@ (8 :> 92) @@ (9 :> 352) @@ (10 :> 724) @@ (11 :> 2680) @@
    (12 :> 14200) @@ (13 :> 73712) @@ (14 :> 365596)

get_statistics ==
    [board_size |-> n, solutions_found |-> solution_count,
     backtrack_operations |-> backtrack_count]

\* Python's order on (row, col) tuples
PairLess(p, q) == p[1] < q[1] \/ (p[1] = q[1] /\ p[2] < q[2])

\* sorted(solution): the pairs of the list in ascending order, repeats kept
RECURSIVE sorted(_)
sorted(s) ==
    IF s = <<>> THEN <<>>
    ELSE LET least == CHOOSE i \in 1..Len(s) :
                          \A j \in 1..Len(s) :
                              /\ ~PairLess(s[j], s[i])
                              /\ (s[j] = s[i]) => (i <= j)
         IN <<s[least]>> \o sorted(SubSeq(s, 1, least - 1) \o SubSeq(s, least + 1, Len(s)))

\* analyze_symmetry (284-300): the two counts it prints; nothing for an empty list
analyze_symmetry(sols) ==
    IF sols = <<>>
    THEN [printed |-> FALSE, total |-> 0, unique |-> 0]
    ELSE [printed |-> TRUE, total |-> Len(sols),
          unique |-> Cardinality({sorted(sols[i]) : i \in 1..Len(sols)})]

\* ------------------------------------------------------------ construction

NoRun == [ran |-> FALSE, ret |-> "-", board |-> {}, solutions |-> <<>>,
          solution_count |-> 0, backtrack_count |-> 0]

Outcome(r) == [ran |-> TRUE, ret |-> r, board |-> board', solutions |-> solutions',
               solution_count |-> solution_count',
               backtrack_count |-> backtrack_count']

\* __init__: the fields of a newly built solver
NewSolver(m) ==
    /\ n' = m
    /\ board' = {}
    /\ solutions' = <<>>
    /\ solution_count' = 0
    /\ backtrack_count' = 0

NoLocals ==
    /\ frames = <<>> /\ rv = "-"
    /\ cols = {} /\ diag1 = {} /\ diag2 = {}
    /\ stack = <<>> /\ positions = <<>>

Init ==
    /\ n \in Sizes
    /\ board = {} /\ solutions = <<>> /\ solution_count = 0 /\ backtrack_count = 0
    /\ pc = "idle" /\ mode = "none" /\ ret = "-"
    /\ NoLocals
    /\ calls = 0 /\ fresh = TRUE /\ startedFresh = TRUE /\ afterReset = FALSE
    /\ startLen = 0
    /\ undone = 0
    /\ ref = [m \in Modes |-> NoRun]
    /\ vcand = <<>> /\ vres = "-"

\* main(): solver = NQueensSolver(n) for the next problem of the same size
New ==
    /\ pc = "idle" /\ ~fresh
    /\ NewSolver(n)
    /\ mode' = "none" /\ ret' = "-" /\ rv' = "-"
    /\ frames' = <<>> /\ cols' = {} /\ diag1' = {} /\ diag2' = {}
    /\ stack' = <<>> /\ positions' = <<>>
    /\ fresh' = TRUE /\ startedFresh' = TRUE /\ afterReset' = FALSE
    /\ startLen' = 0 /\ undone' = 0
    /\ UNCHANGED <<pc, calls, ref, valVars>>

\* reset without line 27
reset_KeepsCount ==
    /\ pc = "idle" /\ ~fresh
    /\ board' = {}
    /\ solutions' = <<>>
    /\ backtrack_count' = 0
    /\ mode' = "none" /\ ret' = "-" /\ undone' = 0 /\ startLen' = 0
    /\ UNCHANGED <<n, solution_count, pc, frames, rv, allSets, iterVars, calls,
                   fresh, startedFresh, afterReset, ref, valVars>>

\* reset without line 25
reset_KeepsBoard ==
    /\ pc = "idle" /\ ~fresh
    /\ solutions' = <<>>
    /\ solution_count' = 0
    /\ backtrack_count' = 0
    /\ mode' = "none" /\ ret' = "-" /\ undone' = 0 /\ startLen' = 0
    /\ UNCHANGED <<n, board, pc, frames, rv, allSets, iterVars, calls, fresh,
                   startedFresh, afterReset, ref, valVars>>

reset ==
    /\ pc = "idle" /\ ~fresh
    /\ board' = {}
    /\ solutions' = <<>>
    /\ solution_count' = 0
    /\ backtrack_count' = 0
    /\ mode' = "none" /\ ret' = "-" /\ undone' = 0 /\ startLen' = 0
    /\ UNCHANGED <<n, pc, frames, rv, allSets, iterVars, calls, fresh,
                   startedFresh, afterReset, ref, valVars>>

\* reset() was the last call on the solver: only reset() leaves a used solver
\* without a last search
JustReset == mode = "none" /\ ~fresh

\* a top-level call may start
CanStart == pc = "idle" /\ calls < MaxCalls /\ (fresh \/ n <= MaxSeqN)

Begin(m) ==
    /\ mode' = m /\ ret' = "-" /\ rv' = "-" /\ UNCHANGED ref
    /\ calls' = calls + 1
    /\ startedFresh' = fresh /\ afterReset' = JustReset /\ fresh' = FALSE
    /\ startLen' = Len(solutions)
    /\ vcand' = <<>> /\ vres' = "-"

\* the top-level call returns r
Finish(r) ==
    /\ pc' = "idle"
    /\ ret' = r
    /\ ref' = IF startedFresh' /\ ~ref[mode'].ran
              THEN [ref EXCEPT ![mode'] = Outcome(r)] ELSE ref

Top == frames[Len(frames)]
Pop == SubSeq(frames, 1, Len(frames) - 1)
Frame(r) == [row |-> r, col |-> 0, at |-> "loop"]
SetTop(f) == [frames EXCEPT ![Len(frames)] = f]

\* a recursive call returns v: to its caller's frame, or out of the top-level call
Return(v) ==
    /\ frames' = Pop
    /\ IF Len(frames) = 1
       THEN Finish(v) /\ rv' = "-"
       ELSE rv' = v /\ UNCHANGED <<pc, ret, ref>>

\* --------------------------------------------------- solve_backtrack (69-93)

solve_backtrack ==
    /\ CanStart
    /\ Begin("bt")
    /\ pc' = "run"
    /\ frames' = <<Frame(0)>>
    /\ UNCHANGED <<solverVars, allSets, iterVars, undone>>

InBt == pc = "run" /\ mode = "bt" /\ frames # <<>>

\* lines 75-76: all queens are placed
BtBase ==
    /\ InBt /\ Top.at = "loop" /\ Top.row >= n
    /\ UNCHANGED <<solverVars, mode, allSets, iterVars, calls, fresh,
                   startedFresh, afterReset, startLen, undone, valVars>>
    /\ Return("True")

\* lines 79-85 with a loop that stays on a column that is not safe
BtTry_NoAdvance ==
    /\ InBt /\ Top.at = "loop" /\ Top.row < n /\ Top.col < n
    /\ IF is_safe(board, n, Top.row, Top.col)
       THEN /\ board' = board \cup {<<Top.row, Top.col>>}
            /\ frames' = Append(SetTop([Top EXCEPT !.at = "call"]), Frame(Top.row + 1))
       ELSE /\ board' = board
            /\ frames' = frames
    /\ UNCHANGED <<n, solutions, solution_count, backtrack_count, pc, mode, rv,
                   allSets, iterVars, ret, calls, fresh, startedFresh, afterReset,
                   startLen, undone,
                   ref, valVars>>

\* lines 79-85 with the recursive call made for the same row
BtTry_CallsSameRow ==
    /\ InBt /\ Top.at = "loop" /\ Top.row < n /\ Top.col < n
    /\ IF is_safe(board, n, Top.row, Top.col)
       THEN /\ board' = board \cup {<<Top.row, Top.col>>}
            /\ frames' = Append(SetTop([Top EXCEPT !.at = "call"]), Frame(Top.row))
       ELSE /\ board' = board
            /\ frames' = SetTop([Top EXCEPT !.col = @ + 1])
    /\ UNCHANGED <<n, solutions, solution_count, backtrack_count, pc, mode, rv,
                   allSets, iterVars, ret, calls, fresh, startedFresh, afterReset,
                   startLen, undone,
                   ref, valVars>>

\* lines 79-85: the next column of the loop; a safe one is taken and the next
\* row is called
BtTry ==
    /\ InBt /\ Top.at = "loop" /\ Top.row < n /\ Top.col < n
    /\ IF is_safe(board, n, Top.row, Top.col)
       THEN /\ board' = board \cup {<<Top.row, Top.col>>}
            /\ frames' = Append(SetTop([Top EXCEPT !.at = "call"]), Frame(Top.row + 1))
       ELSE /\ board' = board
            /\ frames' = SetTop([Top EXCEPT !.col = @ + 1])
    /\ UNCHANGED <<n, solutions, solution_count, backtrack_count, pc, mode, rv,
                   allSets, iterVars, ret, calls, fresh, startedFresh, afterReset,
                   startLen, undone,
                   ref, valVars>>

\* lines 85-86: the recursive call found a solution
BtSucceed ==
    /\ InBt /\ Top.at = "call" /\ rv = "True"
    /\ UNCHANGED <<solverVars, mode, allSets, iterVars, calls, fresh,
                   startedFresh, afterReset, startLen, undone, valVars>>
    /\ Return("True")

\* lines 88-89 without the increment of line 90
BtUndo_NoCount ==
    /\ InBt /\ Top.at = "call" /\ rv = "False"
    /\ board' = board \ {<<Top.row, Top.col>>}
    /\ undone' = undone + 1
    /\ frames' = SetTop([Top EXCEPT !.at = "loop", !.col = @ + 1])
    /\ rv' = "-"
    /\ UNCHANGED <<n, solutions, solution_count, backtrack_count, pc, mode,
                   allSets, iterVars, ret, calls, fresh, startedFresh, afterReset,
                   startLen, ref, valVars>>

\* lines 88-90 followed by a loop that steps over the next column
BtUndo_SkipsColumn ==
    /\ InBt /\ Top.at = "call" /\ rv = "False"
    /\ board' = board \ {<<Top.row, Top.col>>}
    /\ backtrack_count' = backtrack_count + 1
    /\ undone' = undone + 1
    /\ frames' = SetTop([Top EXCEPT !.at = "loop", !.col = @ + 2])
    /\ rv' = "-"
    /\ UNCHANGED <<n, solutions, solution_count, pc, mode, allSets, iterVars,
                   ret, calls, fresh, startedFresh, afterReset, startLen, ref, valVars>>

\* lines 88-90 without the board write of line 89
BtUndo_KeepsQueen ==
    /\ InBt /\ Top.at = "call" /\ rv = "False"
    /\ backtrack_count' = backtrack_count + 1
    /\ undone' = undone + 1
    /\ frames' = SetTop([Top EXCEPT !.at = "loop", !.col = @ + 1])
    /\ rv' = "-"
    /\ UNCHANGED <<n, board, solutions, solution_count, pc, mode, allSets,
                   iterVars, ret, calls, fresh, startedFresh, afterReset, startLen, ref,
                   valVars>>

\* lines 88-90: the recursive call failed, the queen is taken back
BtUndo ==
    /\ InBt /\ Top.at = "call" /\ rv = "False"
    /\ board' = board \ {<<Top.row, Top.col>>}
    /\ backtrack_count' = backtrack_count + 1
    /\ undone' = undone + 1
    /\ frames' = SetTop([Top EXCEPT !.at = "loop", !.col = @ + 1])
    /\ rv' = "-"
    /\ UNCHANGED <<n, solutions, solution_count, pc, mode, allSets, iterVars,
                   ret, calls, fresh, startedFresh, afterReset, startLen, ref, valVars>>

\* line 93: every column of the row was tried
BtExhaust ==
    /\ InBt /\ Top.at = "loop" /\ Top.row < n /\ Top.col >= n
    /\ UNCHANGED <<solverVars, mode, allSets, iterVars, calls, fresh,
                   startedFresh, afterReset, startLen, undone, valVars>>
    /\ Return("False")

\* ----------------------------------------------- solve_all_backtrack (95-139)

\* boards above MaxSeqN are searched exhaustively only as the first call
solve_all_backtrack ==
    /\ CanStart /\ n <= MaxAllN /\ (n <= MaxSeqN \/ calls = 0)
    /\ Begin("all")
    /\ pc' = "run"
    /\ frames' = <<Frame(0)>>
    /\ cols' = {} /\ diag1' = {} /\ diag2' = {}
    /\ UNCHANGED <<solverVars, iterVars, undone>>

InAll == pc = "run" /\ mode = "all" /\ frames # <<>>

\* lines 111-120 with the list replaced by the new solution alone
AllBase_KeepsLast ==
    /\ InAll /\ Top.at = "loop" /\ Top.row = n
    /\ solutions' = <<ScanBoard(board, n)>>
    /\ solution_count' = solution_count + 1
    /\ UNCHANGED <<n, board, backtrack_count, mode, allSets, iterVars, calls,
                   fresh, startedFresh, afterReset, startLen, undone, valVars>>
    /\ Return("None")

\* lines 111-120 with the new solution put in front of the list
AllBase_Prepends ==
    /\ InAll /\ Top.at = "loop" /\ Top.row = n
    /\ solutions' = <<ScanBoard(board, n)>> \o solutions
    /\ solution_count' = solution_count + 1
    /\ UNCHANGED <<n, board, backtrack_count, mode, allSets, iterVars, calls,
                   fresh, startedFresh, afterReset, startLen, undone, valVars>>
    /\ Return("None")

\* lines 111-120: a full placement is read off the board and recorded
AllBase ==
    /\ InAll /\ Top.at = "loop" /\ Top.row = n
    /\ solutions' = Append(solutions, ScanBoard(board, n))
    /\ solution_count' = solution_count + 1
    /\ UNCHANGED <<n, board, backtrack_count, mode, allSets, iterVars, calls,
                   fresh, startedFresh, afterReset, startLen, undone, valVars>>
    /\ Return("None")

\* lines 123-132
AllTry ==
    /\ InAll /\ Top.at = "loop" /\ Top.row # n /\ Top.col < n
    /\ IF is_safe_optimized(Top.row, Top.col, cols, diag1, diag2)
       THEN /\ board' = board \cup {<<Top.row, Top.col>>}
            /\ cols' = cols \cup {Top.col}
            /\ diag1' = diag1 \cup {Top.row - Top.col}
            /\ diag2' = diag2 \cup {Top.row + Top.col}
            /\ frames' = Append(SetTop([Top EXCEPT !.at = "call"]), Frame(Top.row + 1))
       ELSE /\ UNCHANGED <<board, allSets>>
            /\ frames' = SetTop([Top EXCEPT !.col = @ + 1])
    /\ UNCHANGED <<n, solutions, solution_count, backtrack_count, pc, mode, rv,
                   iterVars, ret, calls, fresh, startedFresh, afterReset, startLen, undone,
                   ref, valVars>>

\* lines 135-139 without the diag1.remove of line 137
AllUndo_KeepsDiag1 ==
    /\ InAll /\ Top.at = "call"
    /\ board' = board \ {<<Top.row, Top.col>>}
    /\ cols' = cols \ {Top.col}
    /\ diag2' = diag2 \ {Top.row + Top.col}
    /\ backtrack_count' = backtrack_count + 1
    /\ undone' = undone + (IF <<Top.row, Top.col>> \in board THEN 1 ELSE 0)
    /\ frames' = SetTop([Top EXCEPT !.at = "loop", !.col = @ + 1])
    /\ rv' = "-"
    /\ UNCHANGED <<n, solutions, solution_count, pc, mode, iterVars, ret, calls,
                   fresh, startedFresh, afterReset, startLen, ref, valVars, diag1>>

\* lines 135-139: after the recursive call, always
AllUndo ==
    /\ InAll /\ Top.at = "call"
    /\ board' = board \ {<<Top.row, Top.col>>}
    /\ cols' = cols \ {Top.col}
    /\ diag1' = diag1 \ {Top.row - Top.col}
    /\ diag2' = diag2 \ {Top.row + Top.col}
    /\ backtrack_count' = backtrack_count + 1
    /\ undone' = undone + (IF <<Top.row, Top.col>> \in board THEN 1 ELSE 0)
    /\ frames' = SetTop([Top EXCEPT !.at = "loop", !.col = @ + 1])
    /\ rv' = "-"
    /\ UNCHANGED <<n, solutions, solution_count, pc, mode, iterVars, ret, calls,
                   fresh, startedFresh, afterReset, startLen, ref, valVars>>

\* the loop of line 123 is over: the call returns None
AllExhaust ==
    /\ InAll /\ Top.at = "loop" /\ Top.row # n /\ Top.col >= n
    /\ UNCHANGED <<solverVars, mode, allSets, iterVars, calls, fresh,
                   startedFresh, afterReset, startLen, undone, valVars>>
    /\ Return("None")

\* --------------------------------------------------- solve_iterative (141-179)

\* lines 141-149
\* solve_iterative without the test of lines 145-146
IterEntry_NoZeroCase ==
    /\ stack' = << <<0, 0>> >>
    /\ pc' = "run"
    /\ UNCHANGED <<ret, ref>>

\* lines 145-149: the empty board is solved at once, else the first frame
IterEntry ==
    IF n = 0
    THEN /\ stack' = <<>>
         /\ Finish("True")
    ELSE /\ stack' = << <<0, 0>> >>
         /\ pc' = "run"
         /\ UNCHANGED <<ret, ref>>

solve_iterative ==
    /\ CanStart
    /\ mode' = "it" /\ rv' = "-"
    /\ calls' = calls + 1
    /\ startedFresh' = fresh /\ afterReset' = JustReset /\ fresh' = FALSE
    /\ startLen' = Len(solutions)
    /\ vcand' = <<>> /\ vres' = "-"
    /\ UNCHANGED <<solverVars, frames, allSets, undone>>
    /\ positions' = <<>>
    /\ IterEntry

InIter == pc = "run" /\ mode = "it"

ItRow == stack[Len(stack)][1]
ItCol == stack[Len(stack)][2]
ItRest == SubSeq(stack, 1, Len(stack) - 1)
\* lines 155-157: queens of later rows are taken off positions and the board
ItKept == IF Len(positions) > ItRow THEN SubSeq(positions, 1, ItRow) ELSE positions
ItGone == {positions[i] : i \in (Len(ItKept) + 1)..Len(positions)}
\* the queens of later rows stay on the board
ItBoard_NotCleared == board
ItBoard == board \ ItGone
\* lines 161-162: the columns from col on that are safe
ItSafe == {c \in ItCol..(n - 1) : is_safe(ItBoard, n, ItRow, c)}
ItFirst == CHOOSE c \in ItSafe : \A d \in ItSafe : c <= d

\* one iteration of the while loop that places a queen in the last row (167-169)
IterFoundLast ==
    /\ InIter /\ stack # <<>>
    /\ ItSafe # {} /\ ItRow = n - 1
    /\ board' = ItBoard \cup {<<ItRow, ItFirst>>}
    /\ positions' = Append(ItKept, <<ItRow, ItFirst>>)
    /\ stack' = ItRest
    /\ undone' = undone + Cardinality(ItGone \cap board)
    /\ UNCHANGED <<n, solutions, solution_count, backtrack_count, mode, frames,
                   rv, allSets, calls, fresh, startedFresh, afterReset, startLen, valVars>>
    /\ Finish("True")

\* one iteration that places a queen in an earlier row (170-174)
IterFound ==
    /\ InIter /\ stack # <<>>
    /\ ItSafe # {} /\ ItRow # n - 1
    /\ board' = ItBoard \cup {<<ItRow, ItFirst>>}
    /\ positions' = Append(ItKept, <<ItRow, ItFirst>>)
    /\ stack' = ItRest \o << <<ItRow, ItFirst + 1>>, <<ItRow + 1, 0>> >>
    /\ undone' = undone + Cardinality(ItGone \cap board)
    /\ UNCHANGED <<n, solutions, solution_count, backtrack_count, pc, mode,
                   frames, rv, allSets, ret, calls, fresh, startedFresh, afterReset,
                   startLen, ref,
                   valVars>>

\* lines 176-177 with the counter stepped down instead of up
IterNotFound_CountsDown ==
    /\ InIter /\ stack # <<>>
    /\ ItSafe = {}
    /\ board' = ItBoard
    /\ positions' = ItKept
    /\ stack' = ItRest
    /\ undone' = undone + Cardinality(ItGone \cap board)
    /\ backtrack_count' = backtrack_count - 1
    /\ UNCHANGED <<n, solutions, solution_count, pc, mode, frames, rv, allSets,
                   ret, calls, fresh, startedFresh, afterReset, startLen, ref, valVars>>

\* one iteration that finds no safe column (176-177)
IterNotFound ==
    /\ InIter /\ stack # <<>>
    /\ ItSafe = {}
    /\ board' = ItBoard
    /\ positions' = ItKept
    /\ stack' = ItRest
    /\ undone' = undone + Cardinality(ItGone \cap board)
    /\ backtrack_count' = backtrack_count + 1
    /\ UNCHANGED <<n, solutions, solution_count, pc, mode, frames, rv, allSets,
                   ret, calls, fresh, startedFresh, afterReset, startLen, ref, valVars>>

\* line 179: the stack is empty
IterExhausted ==
    /\ InIter /\ stack = <<>>
    /\ UNCHANGED <<solverVars, stack, positions, mode, frames, rv, allSets,
                   calls, fresh, startedFresh, afterReset, startLen, undone, valVars>>
    /\ Finish("False")

\* ------------------------------------------------------------ specification

\* a validate_solution that marks the candidate's queens on self.board
ValidateWith_UsesBoard(c) ==
    /\ pc = "idle"
    /\ vcand' = c
    /\ vres' = IF validate_solution(n, c) THEN "True" ELSE "False"
    /\ board' = {c[i] : i \in 1..Len(c)}
    /\ UNCHANGED <<n, solutions, solution_count, backtrack_count, pc, mode,
                   frames, rv, allSets, iterVars, ret, calls, fresh,
                   startedFresh, afterReset, startLen, undone, ref>>

\* solver.validate_solution(c): lines 250-270 read self.n and write no field
ValidateWith(c) ==
    /\ pc = "idle"
    /\ vcand' = c
    /\ vres' = IF validate_solution(n, c) THEN "True" ELSE "False"
    /\ UNCHANGED <<solverVars, pc, mode, frames, rv, allSets, iterVars, ret,
                   calls, fresh, startedFresh, afterReset, startLen, undone, ref>>

\* solver.validate_solution(vcand)
Validate ==
    /\ vres = "-"
    /\ ValidateWith(vcand)

\* the two rejected 4-queens candidates of the specification, and a solution
Examples ==
    { << <<0, 0>>, <<1, 0>>, <<2, 2>>, <<3, 3>> >>,
      << <<0, 0>>, <<1, 1>>, <<2, 3>>, <<3, 2>> >>,
      << <<0, 1>>, <<1, 3>>, <<2, 0>>, <<3, 2>> >> }

\* the candidates handed to validate_solution between searches: the queens on
\* the board (main(), lines 393-399), the first recorded solution, and the
\* fixed 4-queens candidates
Probes ==
    {ScanBoard(board, n)} \cup {solutions[i] : i \in (1..Len(solutions)) \cap {1}}
        \cup Examples

ValidateCall == pc = "idle" /\ \E c \in Probes : ValidateWith(c)

Next ==
    \/ New
    \/ reset
    \/ solve_backtrack \/ BtBase \/ BtTry \/ BtSucceed \/ BtUndo \/ BtExhaust
    \/ solve_all_backtrack \/ AllBase \/ AllTry \/ AllUndo \/ AllExhaust
    \/ solve_iterative \/ IterFoundLast \/ IterFound \/ IterNotFound \/ IterExhausted
    \/ ValidateCall

Spec == Init /\ [][Next]_vars

\* the steps of a search that has been started
SearchStep ==
    \/ BtBase \/ BtTry \/ BtSucceed \/ BtUndo \/ BtExhaust
    \/ AllBase \/ AllTry \/ AllUndo \/ AllExhaust
    \/ IterFoundLast \/ IterFound \/ IterNotFound \/ IterExhausted

\* one search on the solver as constructed
FirstSearch ==
    /\ calls = 0
    /\ (solve_backtrack \/ solve_all_backtrack \/ solve_iterative)

NextFair == FirstSearch \/ SearchStep

\* a call that has been started keeps executing until it returns
FairSpec == Init /\ [][NextFair]_vars /\ WF_vars(SearchStep)

\* --------------------------------------------------------- validate_solution

\* candidates: up to m + 1 pairs with coordinates from -1 to m
Coords(m) == (0 - 1)..m
Candidates(m) ==
    UNION {[1..k -> Coords(m) \X Coords(m)] : k \in 0..(m + 1)}

InitV ==
    /\ \/ n \in 1..MaxValN /\ vcand \in Candidates(n)
       \/ n = 4 /\ vcand \in Examples
    /\ board = {} /\ solutions = <<>> /\ solution_count = 0 /\ backtrack_count = 0
    /\ pc = "idle" /\ mode = "none" /\ ret = "-"
    /\ NoLocals
    /\ calls = 0 /\ fresh = TRUE /\ startedFresh = TRUE /\ afterReset = FALSE
    /\ startLen = 0
    /\ undone = 0
    /\ ref = [m \in Modes |-> NoRun]
    /\ vres = "-"

NextV == Validate

SpecV == InitV /\ [][NextV]_vars

\* ------------------------------------------------------------------ claims

\* a top-level call of search m, started on an untouched solver, has returned
Done(m) == pc = "idle" /\ mode = m /\ ret # "-"
FreshDone(m) == Done(m) /\ startedFresh

\* the queens on the board as main() reads them (lines 393-397)
BoardPairs == ScanBoard(board, n)

\* C1: for every N >= 1, solve_iterative() and solve_backtrack(), each on a
\* fresh solver, return the same boolean and leave the same queens on the board.
C1_IterativeEqualsBacktrack ==
    (n >= 1 /\ ref["bt"].ran /\ ref["it"].ran) =>
        /\ ref["it"].ret = ref["bt"].ret
        /\ ref["it"].board = ref["bt"].board

C1_Witness ==
    /\ n = 8 /\ ref["bt"].ran /\ ref["it"].ran
    /\ ref["it"].ret = "True" /\ Cardinality(ref["it"].board) = 8

\* C2: solve_backtrack() on a fresh solver of size N >= 1 (1..MaxN) returns
\* False exactly for N = 2 and N = 3; otherwise it returns True and the queens
\* on the board, read as (row, col) pairs, satisfy validate_solution.
C2_FirstSolutionValid ==
    (n >= 1 /\ FreshDone("bt")) =>
        /\ (ret = "False") <=> (n \in {2, 3})
        /\ (ret = "True") => validate_solution(n, BoardPairs)

C2_Witness == n = 12 /\ FreshDone("bt") /\ ret = "True" /\ Len(BoardPairs) = 12

\* C3: solve_all_backtrack() on a fresh solver ends with solution_count and
\* len(solutions) equal to the known count for N.
C3_KnownCounts ==
    (n >= 1 /\ FreshDone("all")) =>
        /\ solution_count = get_known_solution_counts[n]
        /\ Len(solutions) = get_known_solution_counts[n]

C3_Witness == n = 8 /\ FreshDone("all") /\ solution_count = 92 /\ Len(solutions) = 92

\* f[r] is the column of the queen of row r
NonAttacking(f) ==
    \A i, j \in DOMAIN f :
        i < j => /\ f[i] # f[j]
                 /\ (i - f[i]) # (j - f[j])
                 /\ (i + f[i]) # (j + f[j])

AsPairs(m, f) == [i \in 1..m |-> <<i - 1, f[i - 1]>>]

\* every placement of m queens, one per row and one per column (a permutation
\* of the columns), no two on a common diagonal
AllPlacements(m) ==
    {AsPairs(m, f) : f \in {g \in Permutations(Range0(m)) : NonAttacking(g)}}

SeqRange(s) == {s[i] : i \in 1..Len(s)}

\* C4: the solutions solve_all_backtrack() records on a fresh solver are
\* exactly the placements of N queens, one per row, with pairwise distinct
\* columns, row-col and row+col.
C4_CompleteAndSound ==
    (n >= 1 /\ FreshDone("all")) => SeqRange(solutions) = AllPlacements(n)

C4_Witness ==
    n = 6 /\ FreshDone("all") /\ Cardinality(SeqRange(solutions)) = 4

C6_EveryCallKnownCount ==
    (n >= 1 /\ Done("all")) =>
        /\ Len(solutions) = get_known_solution_counts[n]
        /\ get_statistics.solutions_found = get_known_solution_counts[n]

\* C7 (as claimed): after a first-solution search that returned True the
\* statistics report solutions_found = 1, and for N = 1 the board holds (0,0).
C7_FirstSolutionCounted ==
    (n >= 1 /\ pc = "idle" /\ mode \in {"bt", "it"} /\ ret = "True") =>
        /\ get_statistics.solutions_found = 1
        /\ (n = 1) => (board = {<<0, 0>>})

Malformed(m, sol) ==
    \/ Len(sol) # m
    \/ \E i \in 1..Len(sol) : sol[i][1] \notin Range0(m) \/ sol[i][2] \notin Range0(m)

\* C9 (as claimed): validate_solution returns False for every malformed
\* candidate (wrong length, or a coordinate out of range).
C9_MalformedRejected ==
    (vres # "-" /\ Malformed(n, vcand)) => vres = "False"

\* no two pairs of sol agree in row, column, row - col or row + col
PairwiseDistinct(sol) ==
    \A i, j \in 1..Len(sol) :
        i < j => /\ sol[i][1] # sol[j][1]
                 /\ sol[i][2] # sol[j][2]
                 /\ (sol[i][1] - sol[i][2]) # (sol[j][1] - sol[j][2])
                 /\ (sol[i][1] + sol[i][2]) # (sol[j][1] + sol[j][2])

\* C10: validate_solution returns True if and only if the candidate has
\* exactly N pairs whose rows, columns, row-col and row+col are each pairwise
\* distinct.
C10_ValidateIff ==
    (vres # "-") =>
        ((vres = "True") <=> (Len(vcand) = n /\ PairwiseDistinct(vcand)))

C10_Witness ==
    /\ n = 4 /\ vres = "False"
    /\ vcand = << <<0, 0>>, <<1, 1>>, <<2, 3>>, <<3, 2>> >>

\* C11: validate_solution has no side effects and does not read the board: a
\* call made in any solver state between searches leaves board, solutions,
\* solution_count and backtrack_count as they were, and its result is the one
\* the candidate alone determines.
C11_ValidatePure ==
    [][(vres' # "-" /\ <<vcand', vres'>> # <<vcand, vres>>) =>
        /\ UNCHANGED <<board, solutions, solution_count, backtrack_count>>
        /\ (vres' = "True") <=> (Len(vcand') = n /\ PairwiseDistinct(vcand'))]_vars

\* the 4-queens solution is validated while it stands on the board, and an
\* attacking candidate is rejected after an exhaustive search
C11_Witness ==
    \/ /\ n = 4 /\ vres = "True" /\ Done("bt") /\ Cardinality(board) = 4
       /\ vcand = << <<0, 1>>, <<1, 3>>, <<2, 0>>, <<3, 2>> >>
    \/ /\ n = 4 /\ vres = "False" /\ Done("all") /\ solution_count = 2
       /\ vcand = << <<0, 0>>, <<1, 0>>, <<2, 2>>, <<3, 3>> >>

\* C12 as stated: after a completed search on a fresh solver of size N >= 1 the
\* backtrack count is positive for N = 2 and N = 3, and it is 0 only for N = 1
C12_ZeroOnlyForOne ==
    \A m \in Modes :
        (FreshDone(m) /\ n >= 1) =>
            /\ (n \in {2, 3}) => (backtrack_count > 0)
            /\ (backtrack_count = 0) => (n = 1)

\* C12 amended: the backtrack count of a completed search on a fresh solver is
\* positive for N = 2 and N = 3; a first-solution search ends with 0 exactly when
\* it succeeds without an undo, which among the sizes explored is N = 1 and
\* N = 5; the exhaustive search undoes every placement and ends with at least 1
C12_ZeroOnlyWithoutUndo ==
    \A m \in Modes :
        (FreshDone(m) /\ n >= 1) =>
            /\ (n \in {2, 3}) => (backtrack_count > 0)
            /\ (m \in {"bt", "it"}) =>
                   /\ (backtrack_count = 0) <=> (n \in {1, 5})
                   /\ (backtrack_count = 0) => (ret = "True")
            /\ (m = "all") => (backtrack_count >= 1)

C12_Witness ==
    /\ n = 5 /\ FreshDone("bt") /\ ret = "True"
    /\ backtrack_count = 0 /\ Cardinality(board) = 5

\* C13: backtrack_count is never negative; no step of a search (nor any other
\* step on the same solver) lowers it, except reset(); the only other step after
\* which the counter is smaller is the construction of a new solver
C13_CountMonotone ==
    /\ [](backtrack_count >= 0)
    /\ [][(backtrack_count' < backtrack_count) => (reset \/ New)]_vars
    /\ [][(pc = "run" \/ pc' = "run") => (backtrack_count' >= backtrack_count)]_vars

\* reset() after a search that counted backtracks
C13_Witness ==
    /\ n = 3 /\ calls = 1 /\ ref["it"].ran /\ ref["it"].backtrack_count = 6
    /\ mode = "none" /\ ~fresh /\ backtrack_count = 0

\* C14: at every point of a search on a fresh solver of size N >= 1, in each of
\* the three modes, backtrack_count equals the number of queens taken off the board so far
C14_CountEqualsUndone ==
    (n >= 1 /\ startedFresh /\ mode \in Modes) => (backtrack_count = undone)

\* C15: every step that starts a search, also one that follows an earlier search
\* on the same solver without reset(), starts from a board without queens, and
\* the exhaustive search starts with empty conflict sets
C15_SearchStartsEmpty ==
    [][(calls' = calls + 1) =>
        /\ board = {}
        /\ (mode' = "all") => (cols' = {} /\ diag1' = {} /\ diag2' = {})]_vars

\* C16: at every point of solve_all_backtrack on a fresh solver the three
\* conflict sets are the columns, the row-col and the row+col values of the
\* queens on the board, each with as many elements as there are queens, and
\* all three are empty once the top-level call has returned
C16_SetsMirrorBoard ==
    (mode = "all" /\ startedFresh) =>
        /\ cols = {q[2] : q \in board}
        /\ diag1 = {q[1] - q[2] : q \in board}
        /\ diag2 = {q[1] + q[2] : q \in board}
        /\ Cardinality(cols) = Cardinality(board)
        /\ Cardinality(diag1) = Cardinality(board)
        /\ Cardinality(diag2) = Cardinality(board)
        /\ (pc = "idle") => (cols = {} /\ diag1 = {} /\ diag2 = {})

\* a full placement during the exhaustive search of the 8x8 board
C16_Witness ==
    /\ n = 8 /\ mode = "all" /\ startedFresh /\ pc = "run"
    /\ Cardinality(board) = 8 /\ Cardinality(diag1) = 8 /\ solution_count = 91

\* C17: for N >= 1 every started search returns; solve_backtrack and
\* solve_iterative return True or False, solve_all_backtrack returns None with
\* its solutions recorded, no call is left active, and the iterative search
\* that returns False has emptied its stack
C17_Terminates ==
    /\ (n >= 1 /\ pc = "run") ~> (pc = "idle" /\ ret # "-")
    /\ [](n >= 1 =>
            /\ Done("bt") => (ret \in {"True", "False"} /\ frames = <<>>)
            /\ Done("it") => (ret = "True" \/ (ret = "False" /\ stack = <<>>))
            /\ Done("all") => (ret = "None" /\ frames = <<>>
                                 /\ Len(solutions) = solution_count))

\* the iterative search of the 3x3 board has run out of frames
C17_Witness ==
    /\ n = 3 /\ FreshDone("it") /\ ret = "False" /\ stack = <<>>
    /\ backtrack_count = 6

\* the columns of a row-ordered placement
ColumnsOf(s) == [i \in 1..Len(s) |-> s[i][2]]

\* a comes before b, or is b, in lexicographic order
LexLeq(a, b) ==
    \/ a = b
    \/ \E i \in 1..Len(a) :
           /\ i <= Len(b) /\ a[i] < b[i]
           /\ \A j \in 1..(i - 1) : a[j] = b[j]

\* C18: when solve_backtrack() returns True on a fresh solver, the queens left
\* on the board are a valid placement whose column sequence is the
\* lexicographically smallest of all valid ones; and once both searches have
\* returned on fresh solvers of the same N, the placement is the first element
\* of the list solve_all_backtrack() recorded
C18_FirstInOrder ==
    [][(n >= 1 /\ n <= MaxAllN /\ pc = "run" /\ pc' = "idle" /\ startedFresh) =>
        /\ (mode = "bt" /\ ret' = "True") =>
               LET valid == AllPlacements(n)
                   found == ScanBoard(board', n)
               IN /\ found \in valid
                  /\ \A s \in valid : LexLeq(ColumnsOf(found), ColumnsOf(s))
        /\ (ref'["bt"].ran /\ ref'["bt"].ret = "True" /\ ref'["all"].ran) =>
               /\ Len(ref'["all"].solutions) >= 1
               /\ ref'["all"].solutions[1] = ScanBoard(ref'["bt"].board, n)]_vars

\* both searches have run on fresh 8x8 solvers
C18_Witness ==
    /\ n = 8 /\ FreshDone("bt") /\ ret = "True"
    /\ ref["all"].ran /\ ref["all"].solution_count = 92
    /\ ColumnsOf(BoardPairs) = <<0, 4, 7, 5, 2, 6, 1, 3>>

\* C19 as stated: during solve_backtrack and solve_all_backtrack the number of
\* nested active calls never exceeds N
C19_DepthAtMostN ==
    (n >= 1 /\ mode \in {"bt", "all"}) => (Len(frames) <= n)

\* C19 amended: the number of nested active calls never exceeds N + 1 (N >= 0);
\* the calls are for rows 0, 1, ... in this order, so the deepest one is the
\* call for row N, which only meets the base case
C19_DepthAtMostNPlusOne ==
    (n >= 0 /\ mode \in {"bt", "all"}) =>
        /\ Len(frames) <= n + 1
        /\ \A i \in 1..Len(frames) : frames[i].row = i - 1

\* the call for row N of the 12x12 board is active
C19_Witness ==
    /\ n = 12 /\ mode = "bt" /\ pc = "run"
    /\ Len(frames) = 13 /\ Top.row = 12 /\ Cardinality(board) = 12

\* the queens of a board stand in rows 0..k-1, one in each, and no two share a
\* column or a diagonal
PrefixPlacement(b) ==
    /\ {q[1] : q \in b} = 0..(Cardinality(b) - 1)
    /\ \A p, q \in b :
           (p # q) => /\ p[1] # q[1]
                      /\ p[2] # q[2]
                      /\ (p[1] - p[2]) # (q[1] - q[2])
                      /\ (p[1] + p[2]) # (q[1] + q[2])

\* C20: in every state of a search on a fresh solver, in each of the three
\* modes, the queens on the board fill a prefix of the rows, one per row,
\* pairwise non-attacking (in solve_iterative positions lists them in row order,
\* so the clean-up loop, which pops from its end, keeps this too); and a step
\* that places a queen places one queen, in the row after the rows that stay
\* occupied
C20_PrefixOfRows ==
    /\ []((startedFresh /\ mode \in Modes) =>
             /\ PrefixPlacement(board)
             /\ Cardinality(board) <= n \/ board = {}
             /\ (mode = "it" /\ pc = "run") => (positions = ScanBoard(board, n)))
    /\ [][(startedFresh' /\ ~(board' \subseteq board)) =>
            /\ Cardinality(board' \ board) = 1
            /\ \A q \in board' \ board :
                   /\ q[1] = Cardinality(board') - 1
                   /\ {p[1] : p \in board \cap board'} = 0..(q[1] - 1)]_vars

\* seven queens stand before the last placement of the iterative 8x8 search
C20_Witness ==
    /\ n = 8 /\ mode = "it" /\ startedFresh /\ pc = "run"
    /\ Cardinality(board) = 7 /\ backtrack_count = 105

\* C21: for the list solve_all_backtrack() has produced, a repeated call on the
\* same solver included, analyze_symmetry counts as many distinct canonical
\* forms as there are solutions in the list
C21_SymmetryNoOp ==
    (n >= 1 /\ Done("all")) =>
        analyze_symmetry(solutions).unique = analyze_symmetry(solutions).total

\* C22: no step other than reset() (or the construction of a new solver)
\* changes, removes or reorders a recorded solution: after every step the old
\* list is a prefix of the new one, whatever is placed on or taken off the board
C22_SolutionsAppendOnly ==
    [][(solutions' # solutions /\ ~reset /\ ~New) =>
        /\ Len(solutions') = Len(solutions) + 1
        /\ SubSeq(solutions', 1, Len(solutions)) = solutions]_vars

\* the exhaustive 6x6 search goes on after three solutions were recorded
C22_Witness ==
    /\ n = 6 /\ mode = "all" /\ pc = "run" /\ startedFresh
    /\ Len(solutions) = 3 /\ Cardinality(board) = 2
    /\ solutions[1] = << <<0, 1>>, <<1, 3>>, <<2, 5>>, <<3, 0>>, <<4, 2>>, <<5, 4>> >>

\* the conflict sets that mirror the queens of a board
ColsOf(b) == {q[2] : q \in b}
Diag1Of(b) == {q[1] - q[2] : q \in b}
Diag2Of(b) == {q[1] + q[2] : q \in b}

\* is_safe and is_safe_optimized agree on every column of row r of board b
SafeAgree(b, r, cs, d1, d2) ==
    \A c \in Range0(n) : is_safe(b, n, r, c) <=> is_safe_optimized(r, c, cs, d1, d2)

\* C23: in every state of a search on a fresh solver, with the queens in rows
\* 0..row-1 and row the next row, is_safe(row, col) on the board and
\* is_safe_optimized(row, col, ...) on the sets that mirror the board (in
\* solve_all_backtrack: its own cols, diag1, diag2) agree for every column; so
\* they do on the board solve_iterative tests after its clean-up loop
C23_SafeChecksAgree ==
    (startedFresh /\ mode \in Modes /\ pc = "run") =>
        /\ (Cardinality(board) < n) =>
               SafeAgree(board, Cardinality(board),
                         ColsOf(board), Diag1Of(board), Diag2Of(board))
        /\ (mode = "all" /\ Cardinality(board) < n) =>
               SafeAgree(board, Cardinality(board), cols, diag1, diag2)
        /\ (mode = "it" /\ stack # <<>>) =>
               SafeAgree(ItBoard, ItRow,
                         ColsOf(ItBoard), Diag1Of(ItBoard), Diag2Of(ItBoard))

\* five queens stand on the 8x8 board; some columns of row 5 are safe, some not
C23_Witness ==
    /\ n = 8 /\ mode = "all" /\ startedFresh /\ pc = "run"
    /\ Cardinality(board) = 5
    /\ \E c \in Range0(n) : is_safe(board, n, 5, c)
    /\ \E c \in Range0(n) : ~is_safe_optimized(5, c, cols, diag1, diag2)

\* C24: a second solve_backtrack() on the same solver (the first call's queens
\* still on the board unless reset() was called) returns what the first call
\* returned and leaves the same queens on the board, N of them after True
C24_BacktrackIdempotent ==
    (n >= 1 /\ calls = 2 /\ Done("bt") /\ ~startedFresh
          /\ ref["bt"].ran /\ ~ref["all"].ran /\ ~ref["it"].ran) =>
        /\ ret = ref["bt"].ret
        /\ board = ref["bt"].board
        /\ (ret = "True") => (Cardinality(board) = n)

\* the second call on the 4x4 board has returned; the counter shows that no
\* reset() came between the calls
C24_Witness ==
    /\ n = 4 /\ calls = 2 /\ Done("bt") /\ ~startedFresh /\ ret = "True"
    /\ ref["bt"].ran /\ ~ref["all"].ran /\ ~ref["it"].ran
    /\ ref["bt"].backtrack_count = 4 /\ backtrack_count = 6
    /\ board = {<<0, 1>>, <<1, 3>>, <<2, 0>>, <<3, 2>>}

\* the members of a set of placements, in ascending order of column sequences
RECURSIVE InColumnOrder(_)
InColumnOrder(S) ==
    IF S = {} THEN <<>>
    ELSE LET least == CHOOSE s \in S : \A t \in S : LexLeq(ColumnsOf(s), ColumnsOf(t))
         IN <<least>> \o InColumnOrder(S \ {least})

\* C25: solve_all_backtrack() called on a used solver whose solutions list is
\* empty (the board may still hold the solution of an earlier solve_backtrack()
\* or solve_iterative()) records only solutions of N pairs, one per row in
\* ascending row order, and the list is the one a fresh solver records
C25_StaleBoardSameList ==
    (n >= 1 /\ Done("all") /\ ~startedFresh /\ startLen = 0) =>
        /\ \A i \in 1..Len(solutions) :
               /\ Len(solutions[i]) = n
               /\ \A r \in 1..n : solutions[i][r][1] = r - 1
        /\ solutions = InColumnOrder(AllPlacements(n))
        /\ ref["all"].ran => (solutions = ref["all"].solutions)

\* the exhaustive search has run over the four queens solve_backtrack() left:
\* 4 + 16 backtracks show that there was no reset()
C25_Witness ==
    /\ n = 4 /\ calls = 2 /\ Done("all") /\ ~startedFresh /\ startLen = 0
    /\ ref["bt"].ran /\ ref["bt"].ret = "True" /\ Cardinality(ref["bt"].board) = 4
    /\ backtrack_count = 20 /\ Len(solutions) = 2

\* C26: on a fresh solver the board holds no queen when solve_backtrack() has
\* returned False, when solve_iterative() has returned False, and when the
\* top-level solve_all_backtrack() call has returned
C26_BoardClearedOnFailure ==
    /\ (FreshDone("bt") /\ ret = "False") => (board = {})
    /\ (FreshDone("it") /\ ret = "False") => (board = {})
    /\ FreshDone("all") => (board = {})

\* solve_backtrack() has failed on the 3x3 board after placing and undoing five
\* queens
C26_Witness ==
    /\ n = 3 /\ FreshDone("bt") /\ ret = "False"
    /\ undone = 5 /\ backtrack_count = 5 /\ board = {}

\* C27: at every loop iteration of solve_iterative, on a fresh or a used solver,
\* the rows of the stack's frames increase strictly from bottom to top, the
\* stack and positions hold at most N entries, the i-th entry of positions is a
\* queen of row i, and positions lists exactly the queens on the board
C27_IterativeStackShape ==
    (n >= 1 /\ mode = "it" /\ pc = "run") =>
        /\ \A i \in 1..(Len(stack) - 1) : stack[i][1] < stack[i + 1][1]
        /\ Len(stack) <= n
        /\ Len(positions) <= n
        /\ \A i \in 1..Len(positions) : positions[i][1] = i - 1
        /\ SeqRange(positions) = board

\* C28: in every state, after any sequence of solve_backtrack,
\* solve_all_backtrack, solve_iterative and reset calls, and during them,
\* solution_count is the length of solutions
C28_CountIsLength ==
    solution_count = Len(solutions)

\* reset() has emptied a list of two solutions, and the next exhaustive search
\* has recorded its first
C28_Witness ==
    /\ n = 4 /\ calls = 2 /\ mode = "all" /\ pc = "run" /\ ~startedFresh
    /\ ref["all"].ran /\ ref["all"].solution_count = 2
    /\ startLen = 0 /\ Len(solutions) = 1 /\ solution_count = 1

\* C29: whenever solve_all_backtrack() on a fresh solver has recorded two or
\* more solutions, the column sequence of the last one recorded is
\* lexicographically strictly greater than that of the one recorded before it;
\* the list passes through every length, so all neighbours are compared
C29_RecordedInColumnOrder ==
    (mode = "all" /\ startedFresh /\ Len(solutions) >= 2) =>
        LET last == ColumnsOf(solutions[Len(solutions)])
            before == ColumnsOf(solutions[Len(solutions) - 1])
        IN before # last /\ LexLeq(before, last)

\* the second solution of the 6x6 board has just been recorded
C29_Witness ==
    /\ n = 6 /\ mode = "all" /\ startedFresh /\ pc = "run"
    /\ Len(solutions) = 2
    /\ ColumnsOf(solutions[1]) = <<1, 3, 5, 0, 2, 4>>
    /\ ColumnsOf(solutions[2]) = <<2, 5, 1, 4, 0, 3>>
    /\ Cardinality(board) = 6

\* C30: reset(), after any searches, leaves an empty board, an empty solutions
\* list, both counters 0 and n as it was; and a search started right after
\* reset() ends with the return value, board, solutions, solution_count and
\* backtrack_count that the same search has on a newly constructed solver
C30_ResetRestoresFresh ==
    /\ [](JustReset =>
            /\ board = {} /\ solutions = <<>>
            /\ solution_count = 0 /\ backtrack_count = 0)
    /\ [][reset => (n' = n)]_vars
    /\ [](\A m \in Modes :
            (Done(m) /\ afterReset /\ ref[m].ran) =>
                /\ ret = ref[m].ret
                /\ board = ref[m].board
                /\ solutions = ref[m].solutions
                /\ solution_count = ref[m].solution_count
                /\ backtrack_count = ref[m].backtrack_count)

\* solve_backtrack() on the 4x4 board, reset(), solve_backtrack() again
C30_Witness ==
    /\ n = 4 /\ calls = 2 /\ Done("bt") /\ afterReset /\ ~startedFresh
    /\ ref["bt"].ran /\ ret = "True"
    /\ backtrack_count = 4 /\ Cardinality(board) = 4

====
